---- MODULE Spec2Model ----
(***************************************************************************)
(* Model of the trade-inference and correlation engine of pump-api:        *)
(*   - TransactionSubscription (src/src/lib/transactions.ts): one object   *)
(*     watching one bonding curve, specification Spec;                     *)
(*   - the /ws/txs registry of src/src/server.ts (transactionSubscriptions *)
(*     map, connection / close / error handlers), specification SpecServer.*)
(*                                                                         *)
(* Conventions.  Null stands for JavaScript null / undefined.  Reserves    *)
(* and lamport amounts are naturals below 2^53, where toNum() is exact.    *)
(* x / 1_000_000_000 is kept as the exact quotient <<x, LAMPORTS_PER_SOL>>.*)
(* String(n) is kept as <<"str", n>>.  Time is in milliseconds.            *)
(* Fields named tid / lid / via are history tags (which provisional trade, *)
(* which log notification, which code path produced a delivery), and the   *)
(* variables lastCall, emitted, trades and logs are history variables:     *)
(* no guard and no program variable of the model reads them.               *)
(***************************************************************************)
EXTENDS Integers, Sequences, FiniteSets, TLC

\* ------------------------------------------------------------ constants
Null == "null"

\* amountSol = solDelta / 1_000_000_000
LAMPORTS_PER_SOL == 1000000000

\* setTimeout(..., 2000)
TIMEOUT_MS == 2000

\* now - pending.timestamp > 10000
STALE_MS == 10000

\* for (let slotOffset = -5; slotOffset <= 5; slotOffset++)
SLOT_WINDOW == 5

\* const CACHE_TTL = 60000
CACHE_TTL == 60000

\* the lower repetition count of [A-Za-z0-9]{32,44}
MIN_ADDRESS_LENGTH == 32

\* the upper repetition count of [A-Za-z0-9]{32,44}
MAX_ADDRESS_LENGTH == 44

\* ws.close(1008, 'Invalid bondingCurve parameter. ...')
INVALID_PARAMETER_CODE == 1008

\* ------------------------------------------------------------ bounds
\* notifications (account changes and logs together) delivered to one subscription
MaxNotifications == 3

\* WebSocket clients that connect to /ws/txs, all with the same bondingCurve key
MaxClients == 2

\* callbacks registered on one TransactionSubscription
MaxCallbacks == 2

\* GET /api/topholders requests
MaxRequests == 3

\* steps of the clock while requests are served
MaxCacheTicks == 3

\* the largest maxRetries passed to retryWithBackoff
MaxRetries == 5

Clients == 1 .. MaxClients

\* transactionSubscriptions.get(bondingCurve) === undefined
NoEntry == 0

\* the clock advances from one timer expiry to the next
TickMs == TIMEOUT_MS

\* slots carried by notifications: 2 and 7 are SLOT_WINDOW apart, 1 and 7 are not
Slots == {1, 2, 7}

\* values of virtual_sol_reserves and of virtual_token_reserves: every sign pair of
\* (solDelta, tokenDelta) occurs, and |solDelta| differs from |tokenDelta|
SolValues == {1, 3}

TokenValues == {1, 2}

Reserves == [virtual_sol_reserves : SolValues, virtual_token_reserves : TokenValues]

BondingCurveStr == "curve"
CreatorStr == "creator"
TraderStr == "trader"

\* ------------------------------------------------------------ state
VARIABLES
    now,                \* Date.now()
    phase,              \* "new", "active", "failed", "closed": where the object's life is
    programType,        \* status.programType: Null, "pump", "pump_amm"
    eventParser,        \* TRUE iff this.eventParser is not null
    subscribed,         \* status.subscribed
    statusError,        \* TRUE iff status.error has been set
    accountListenerId,  \* Null or the handle of onAccountChange
    logsListenerId,     \* Null or the handle of onLogs
    prevReserves,       \* Null or the previous snapshot
    pendingTrades,      \* Map<slot, {event, timestamp}> as a function on a set of slots
    timers,             \* the setTimeout closures not yet run
    eventCount,         \* status.eventCount
    emitted,            \* history: the events the last step passed to notifyCallbacks
    lastCall,           \* history: the last handler run and its arguments
    trades,             \* history: by tid, slot, creation time and direction of each
                        \*          provisional trade, and how often it was passed to
                        \*          notifyCallbacks
    logs,               \* history: by lid, slot and arrival time of each log
                        \*          notification, the number of TradeEvents in it and
                        \*          the direction of the first
    feedSlot,           \* the provider: the last slot sent on each of the two feeds
    nAccount,           \* account notifications handled so far
    cancels,            \* upstream cancels issued: [account |-> n, logs |-> n]
    \* server.ts, /ws/txs.  A connection handler, the TransactionSubscription it
    \* constructs and the subscriptionData object it builds are named by the client
    \* whose connection ran the handler.
    ws,                 \* by client, the socket: "new", "open", "closing", "closed"
    pc,                 \* by client, the connection handler: "idle", "await" (at
                        \* await subscription.subscribe()), "joined" (ran to its end),
                        \* "rejected" (returned early or ended in its catch)
    registry,           \* transactionSubscriptions.get(bondingCurve): NoEntry or the
                        \* subscriptionData stored under the key
    entryClients,       \* by subscriptionData, its clients set
    closure,            \* by client, the subscriptionData its handler holds
    subs,               \* by TransactionSubscription, its handles and status
    firstMsg,           \* history: by client, the first message sent to its socket:
                        \* Null, "connected" or "trade"
    paramCheck,         \* history: by client, whether the bondingCurve parameter of
                        \* its request URL matched the address pattern, and the code
                        \* the parameter check closed the socket with (0: it did not)
    \* delivery to listeners
    callbacks,          \* this.callbacks of a TransactionSubscription used through
                        \* onTransaction() directly: the set of registered callbacks
    notified,           \* history: the notifyCallbacks() run since the callbacks last
                        \* changed
    broadcast,          \* history: the run of the server's broadcast callback, when
                        \* that was the last step of the server
    \* GET /api/topholders/:mint
    topHoldersCache,    \* Map<mint, {data, timestamp}>: by mint, None or Some(entry)
    req,                \* by request, where its handler is and what it saw and answered
    lastApi,            \* history: the last step of a request handler
    \* retryWithBackoff
    retry               \* one call of retryWithBackoff: its arguments, loop variable
                        \* and position, and (history) the outcome of every fn() call
                        \* and the delay of every wait

engineVars == <<now, phase, programType, eventParser, subscribed, statusError,
                accountListenerId, logsListenerId, prevReserves, pendingTrades,
                timers, eventCount, emitted, lastCall, trades, logs, feedSlot,
                nAccount, cancels>>

serverVars == <<ws, pc, registry, entryClients, closure, subs, firstMsg, paramCheck>>

deliveryVars == <<callbacks, notified, broadcast>>

apiVars == <<topHoldersCache, req, lastApi, retry>>

vars == <<engineVars, serverVars, deliveryVars, apiVars>>

\* ------------------------------------------------------------ pure helpers
\* function toNum(v) : exact below 2^53
toNum(v) == v

Abs(x) == IF x < 0 THEN -x ELSE x

\* x / 1_000_000_000
DivLamports(x) == <<x, LAMPORTS_PER_SOL>>

\* String(n)
String(n) == <<"str", n>>

\* const solDelta = currSol - prevSol
SolDelta(prev, decoded) ==
    toNum(decoded.virtual_sol_reserves) - prev.virtual_sol_reserves

\* const tokenDelta = prevToken - currToken
TokenDelta(prev, decoded) ==
    prev.virtual_token_reserves - toNum(decoded.virtual_token_reserves)

IsBuy_signOfSolOnly(solDelta, tokenDelta) == solDelta > 0

\* if (solDelta > 0 && tokenDelta > 0)
IsBuy(solDelta, tokenDelta) == solDelta > 0 /\ tokenDelta > 0

IsSell_signOfSolOnly(solDelta, tokenDelta) == solDelta < 0

\* else if (solDelta < 0 && tokenDelta < 0)
IsSell(solDelta, tokenDelta) == solDelta < 0 /\ tokenDelta < 0

BuyAmount_token(solDelta, tokenDelta) == DivLamports(tokenDelta)

\* const amountSol = solDelta / 1_000_000_000            (buy branch)
BuyAmount(solDelta, tokenDelta) == DivLamports(solDelta)

SellAmount_signed(solDelta, tokenDelta) == DivLamports(solDelta)

\* const amountSol = Math.abs(solDelta) / 1_000_000_000  (sell branch)
SellAmount(solDelta, tokenDelta) == DivLamports(Abs(solDelta))

\* the provisional TradeEvent of the buy branch
BuyEvent(solDelta, tokenDelta, slot) ==
    [type |-> "buy", bonding_curve |-> BondingCurveStr,
     amount |-> BuyAmount(solDelta, tokenDelta), slot |-> slot,
     token_amount_delta |-> String(tokenDelta),
     user |-> CreatorStr, signature |-> Null]

\* the provisional TradeEvent of the sell branch
SellEvent(solDelta, tokenDelta, slot) ==
    [type |-> "sell", bonding_curve |-> BondingCurveStr,
     amount |-> SellAmount(solDelta, tokenDelta), slot |-> slot,
     token_amount_delta |-> String(Abs(tokenDelta)),
     user |-> Null, signature |-> Null]

\* Map.set(key, value)
MapSet(m, k, v) == [x \in (DOMAIN m) \cup {k} |-> IF x = k THEN v ELSE m[x]]

\* Map.delete(key)
MapDelete(m, k) == [x \in (DOMAIN m) \ {k} |-> m[x]]

EmptyMap == [x \in {} |-> Null]

\* an optional value: JavaScript null, or a value
None == <<>>

Some(x) == <<x>>

\* ------------------------------------------------------------ history
\* the record kept in lastCall: the handler, its arguments, and the fields of the
\* object as the handler found them
Call(op, slot, data) ==
    [op |-> op, slot |-> slot, data |-> data,
     pre |-> [prevReserves |-> prevReserves, pendingTrades |-> pendingTrades,
              timers |-> timers, eventCount |-> eventCount, ntrades |-> Len(trades),
              phase |-> phase]]

\* a record of emitted: the TradeEvent, the provisional trade and the log notification
\* it stems from (0: none), and the code path that passed it to notifyCallbacks
Delivery(event, tid, lid, via) == [event |-> event, tid |-> tid, lid |-> lid, via |-> via]

\* trades with the deliveries of out counted in
Counted(tr, out) ==
    [i \in DOMAIN tr |->
        [tr[i] EXCEPT !.n = @ + Cardinality({k \in DOMAIN out : out[k].tid = i})]]

\* ------------------------------------------------------------ handleAccountChange
\* the branch taken on (prevReserves, decoded): "buy", "sell" or "none"
InferredType(prev, decoded) ==
    IF prev = None THEN "none"
    ELSE LET solDelta == SolDelta(prev[1], decoded)
             tokenDelta == TokenDelta(prev[1], decoded)
         IN  IF IsBuy(solDelta, tokenDelta) THEN "buy"
             ELSE IF IsSell(solDelta, tokenDelta) THEN "sell"
             ELSE "none"

\* the provisional TradeEvent built by the branch taken
InferredEvent(prev, decoded, slot) ==
    LET solDelta == SolDelta(prev[1], decoded)
        tokenDelta == TokenDelta(prev[1], decoded)
    IN  IF InferredType(prev, decoded) = "buy"
        THEN BuyEvent(solDelta, tokenDelta, slot)
        ELSE SellEvent(solDelta, tokenDelta, slot)

\* for (const [slot, pending] of pendingTrades) if (now - pending.timestamp > 10000) delete
Sweep_atBound(pt, t) ==
    [s \in {x \in DOMAIN pt : ~(t - pt[x].timestamp >= STALE_MS)} |-> pt[s]]

\* for (const [slot, pending] of this.pendingTrades.entries())
\*     if (now - pending.timestamp > 10000) this.pendingTrades.delete(slot)
Sweep(pt, t) ==
    [s \in {x \in DOMAIN pt : ~(t - pt[x].timestamp > STALE_MS)} |-> pt[s]]

SnapshotOf_swapped(decoded) ==
    [virtual_sol_reserves |-> toNum(decoded.virtual_token_reserves),
     virtual_token_reserves |-> toNum(decoded.virtual_sol_reserves)]

\* this.prevReserves = { virtual_sol_reserves: toNum(..), virtual_token_reserves: toNum(..) }
SnapshotOf(decoded) ==
    [virtual_sol_reserves |-> toNum(decoded.virtual_sol_reserves),
     virtual_token_reserves |-> toNum(decoded.virtual_token_reserves)]

AfterUndecoded_reset(prev) == None

\* if (!accountData) return;  if (!decoded) return;  -- prevReserves is not assigned
AfterUndecoded(prev) == prev

\* One account-change notification.  data = None: dataToBuffer or decodeAccountData
\* returned null; data = Some(decoded) otherwise.
HandleAccountChange(data, slot) ==
    /\ accountListenerId # Null
    /\ nAccount + Len(logs) < MaxNotifications
    /\ slot >= feedSlot.account
    /\ feedSlot' = [feedSlot EXCEPT !.account = slot]
    /\ nAccount' = nAccount + 1
    /\ lastCall' = Call("account", slot, data)
    /\ emitted' = <<>>
    /\ IF data = None
       THEN /\ prevReserves' = AfterUndecoded(prevReserves)
            /\ UNCHANGED <<pendingTrades, timers, trades>>
       ELSE LET decoded == data[1]
                kind == InferredType(prevReserves, decoded)
                tid == Len(trades) + 1
                afterSet ==
                    IF kind = "none" THEN pendingTrades
                    ELSE MapSet(pendingTrades, slot,
                                [event |-> InferredEvent(prevReserves, decoded, slot),
                                 timestamp |-> now, tid |-> tid])
            IN  /\ timers' = IF kind = "none" THEN timers
                             ELSE timers \cup {[slot |-> slot, due |-> now + TIMEOUT_MS, tid |-> tid]}
                /\ trades' = IF kind = "none" THEN trades
                             ELSE Append(trades, [slot |-> slot, at |-> now, type |-> kind, n |-> 0])
                /\ prevReserves' = Some(SnapshotOf(decoded))
                /\ pendingTrades' = Sweep(afterSet, now)
    /\ UNCHANGED <<now, phase, programType, eventParser, subscribed, statusError,
                   accountListenerId, logsListenerId, eventCount, logs, cancels>>
    /\ UNCHANGED serverVars
    /\ UNCHANGED apiVars
    /\ UNCHANGED deliveryVars

\* ------------------------------------------------------------ the 2 s timers
\* Node runs timers in order of expiry, and in order of creation among equals
FirstDue(t) ==
    \A u \in timers : u.due > t.due \/ (u.due = t.due /\ u.tid >= t.tid)

\* const pending = this.pendingTrades.get(context.slot); if (pending)
TimerFinds(t) == t.slot \in DOMAIN pendingTrades

TimerDelete_keeps(pt, slot) == pt

\* this.pendingTrades.delete(context.slot) in the setTimeout closure
TimerDelete(pt, slot) == MapDelete(pt, slot)

\* The setTimeout closure of a provisional trade runs
TimerFire(t) ==
    /\ t \in timers
    /\ now >= t.due
    /\ FirstDue(t)
    /\ timers' = timers \ {t}
    /\ lastCall' = Call("timer", t.slot, Some(t))
    /\ IF TimerFinds(t)
       THEN LET out == <<Delivery(pendingTrades[t.slot].event,
                                  pendingTrades[t.slot].tid, 0, "timeout")>>
            IN  /\ pendingTrades' = TimerDelete(pendingTrades, t.slot)
                /\ eventCount' = eventCount + 1
                /\ emitted' = out
                /\ trades' = Counted(trades, out)
       ELSE /\ emitted' = <<>>
            /\ UNCHANGED <<pendingTrades, eventCount, trades>>
    /\ UNCHANGED <<now, phase, programType, eventParser, subscribed, statusError,
                   accountListenerId, logsListenerId, prevReserves,
                   logs, feedSlot, nAccount, cancels>>
    /\ UNCHANGED serverVars
    /\ UNCHANGED apiVars
    /\ UNCHANGED deliveryVars

\* Time passes.  A due timer runs before the clock moves on; the clock is only
\* followed while a timer is outstanding.
Tick ==
    /\ timers # {}
    /\ \A t \in timers : t.due > now
    /\ now' = now + TickMs
    /\ lastCall' = Call("tick", 0, None)
    /\ emitted' = <<>>
    /\ UNCHANGED <<phase, programType, eventParser, subscribed, statusError,
                   accountListenerId, logsListenerId, prevReserves, pendingTrades,
                   timers, eventCount, trades, logs, feedSlot, nAccount, cancels>>
    /\ UNCHANGED serverVars
    /\ UNCHANGED apiVars
    /\ UNCHANGED deliveryVars

\* the step of the clock when the event loop is held up
LateMs == STALE_MS \div 2

\* Time passes while the event loop is busy: setTimeout promises a delay of at least
\* TIMEOUT_MS, not a deadline, so due timers may still be outstanding afterwards.
TickLate ==
    /\ timers # {}
    /\ now < STALE_MS + LateMs
    /\ now' = now + LateMs
    /\ lastCall' = Call("tick", 0, None)
    /\ emitted' = <<>>
    /\ UNCHANGED <<phase, programType, eventParser, subscribed, statusError,
                   accountListenerId, logsListenerId, prevReserves, pendingTrades,
                   timers, eventCount, trades, logs, feedSlot, nAccount, cancels>>
    /\ UNCHANGED serverVars
    /\ UNCHANGED apiVars
    /\ UNCHANGED deliveryVars

\* ------------------------------------------------------------ handleLogs
\* context.signature of the lid-th log notification
SignatureOf(lid) == "sig" \o ToString(lid)

\* An event parsed out of a log notification.  creator = Null stands for a value
\* that new PublicKey(..) rejects.
PumpTrade(is_buy, sol_amount, creator) ==
    [name |-> "TradeEvent", is_buy |-> is_buy, sol_amount |-> sol_amount,
     token_amount |-> 1, user |-> TraderStr, creator |-> creator, pool |-> Null]

\* the pump events that decode well: a buy of 2 lamports, a sell of 5 lamports
GoodPumpEvents == {PumpTrade(TRUE, 2, CreatorStr), PumpTrade(FALSE, 5, CreatorStr)}

PumpLogEvents ==
    GoodPumpEvents
    \cup {PumpTrade(TRUE, 2, Null)}
    \cup {[name |-> "CreateEvent", is_buy |-> FALSE, sol_amount |-> 0, token_amount |-> 0,
           user |-> TraderStr, creator |-> CreatorStr, pool |-> Null]}

AmmLogEvents ==
    [name : {"BuyEvent", "SellEvent"}, is_buy : {FALSE}, sol_amount : {2}, token_amount : {1},
     user : {TraderStr}, creator : {CreatorStr}, pool : {BondingCurveStr, "otherPool"}]
    \cup {[name |-> "BuyEvent", is_buy |-> FALSE, sol_amount |-> 2, token_amount |-> 1,
           user |-> Null, creator |-> CreatorStr, pool |-> BondingCurveStr]}
    \cup {[name |-> "CreatePoolEvent", is_buy |-> FALSE, sol_amount |-> 0, token_amount |-> 0,
           user |-> TraderStr, creator |-> CreatorStr, pool |-> BondingCurveStr]}

\* the BuyEvent / SellEvent logs whose fields convert
GoodAmmEvents == {e \in AmmLogEvents : e.name \in {"BuyEvent", "SellEvent"} /\ e.user # Null}

\* pubkeyEquals(d.pool, this.bondingCurve)
pubkeyEquals(a, b) == a = b

MatchSlots_largest(pt, slot) ==
    LET inWindow == {s \in DOMAIN pt : s >= slot - SLOT_WINDOW /\ s <= slot + SLOT_WINDOW}
    IN  IF inWindow = {} THEN {}
        ELSE {CHOOSE s \in inWindow : \A u \in inWindow : s >= u}

MatchSlots_narrow(pt, slot) ==
    LET inWindow == {s \in DOMAIN pt : s > slot - SLOT_WINDOW /\ s < slot + SLOT_WINDOW}
    IN  IF inWindow = {} THEN {}
        ELSE {CHOOSE s \in inWindow : \A u \in inWindow : s <= u}

\* for (slotOffset = -5; slotOffset <= 5; slotOffset++) { if (pendingTrades.get(slot + slotOffset)) ...; break }
\* the first checkSlot that holds a pending trade: {} or one slot
MatchSlots(pt, slot) ==
    LET inWindow == {s \in DOMAIN pt : s >= slot - SLOT_WINDOW /\ s <= slot + SLOT_WINDOW}
    IN  IF inWindow = {} THEN {}
        ELSE {CHOOSE s \in inWindow : \A u \in inWindow : s <= u}

EnrichedEvent_logType(pendingEvent, d, signature) ==
    [pendingEvent EXCEPT !.type = IF d.is_buy THEN "buy" ELSE "sell",
                         !.user = d.creator,
                         !.signature = signature,
                         !.amount = DivLamports(toNum(d.sol_amount))]

\* { ...pending.event, user: creatorStr, signature: context.signature, amount: amountSol }
EnrichedEvent(pendingEvent, d, signature) ==
    [pendingEvent EXCEPT !.user = d.creator,
                         !.signature = signature,
                         !.amount = DivLamports(toNum(d.sol_amount))]

\* the standalone TradeEvent built from a pump TradeEvent log
StandaloneEvent(d, slot, signature) ==
    [type |-> IF d.is_buy THEN "buy" ELSE "sell",
     amount |-> DivLamports(toNum(d.sol_amount)),
     bonding_curve |-> BondingCurveStr, slot |-> slot,
     token_amount_delta |-> String(toNum(d.token_amount)),
     user |-> d.creator, signature |-> signature]

AmmEvent_anonymous(d, slot, signature) ==
    [type |-> IF d.name = "BuyEvent" THEN "buy" ELSE "sell",
     amount |-> DivLamports(toNum(d.sol_amount)),
     bonding_curve |-> BondingCurveStr, slot |-> slot,
     token_amount_delta |-> String(toNum(d.token_amount)),
     user |-> Null, signature |-> signature]

\* the TradeEvent built from a pump_amm BuyEvent / SellEvent log
AmmEvent(d, slot, signature) ==
    [type |-> IF d.name = "BuyEvent" THEN "buy" ELSE "sell",
     amount |-> DivLamports(toNum(d.sol_amount)),
     bonding_curve |-> BondingCurveStr, slot |-> slot,
     token_amount_delta |-> String(toNum(d.token_amount)),
     user |-> d.user, signature |-> signature]

MergeDelete_keeps(pt, checkSlot) == pt

\* this.pendingTrades.delete(checkSlot) of the merge
MergeDelete(pt, checkSlot) == MapDelete(pt, checkSlot)

ConversionThrows_never(key) == FALSE

\* new PublicKey(d.creator).toBase58() / new PublicKey(d.user).toBase58() throws on a
\* field that is no key
ConversionThrows(key) == key = Null

PoolMatches_any(pool, key) == TRUE

\* if (!this.pubkeyEquals(d.pool, this.bondingCurve)) continue;
PoolMatches(pool, key) == pubkeyEquals(pool, key)

\* One iteration of `for (const ev of parsedEvents)` on st = [pt, cnt, out, thrown]
LogStep(st, ev, isAmm, slot, signature, lid) ==
    IF st.thrown THEN st
    ELSE IF isAmm
    THEN IF ev.name \in {"BuyEvent", "SellEvent"} /\ PoolMatches(ev.pool, BondingCurveStr)
         THEN IF ConversionThrows(ev.user) THEN [st EXCEPT !.thrown = TRUE]
              ELSE
              [st EXCEPT !.cnt = @ + 1,
                         !.out = Append(@, Delivery(AmmEvent(ev, slot, signature), 0, lid, "amm"))]
         ELSE st
    ELSE IF ev.name # "TradeEvent" THEN st
    ELSE IF ConversionThrows(ev.creator) THEN [st EXCEPT !.thrown = TRUE]
    ELSE LET m == MatchSlots(st.pt, slot)
         IN  IF m # {}
             THEN LET checkSlot == CHOOSE s \in m : TRUE
                      pending == st.pt[checkSlot]
                  IN  [st EXCEPT !.pt = MergeDelete(@, checkSlot),
                                 !.cnt = @ + 1,
                                 !.out = Append(@, Delivery(EnrichedEvent(pending.event, ev, signature),
                                                            pending.tid, lid, "merged"))]
             ELSE [st EXCEPT !.cnt = @ + 1,
                             !.out = Append(@, Delivery(StandaloneEvent(ev, slot, signature),
                                                        0, lid, "log"))]

RECURSIVE LogLoop(_, _, _, _, _, _)
\* for (const ev of parsedEvents) { ... } inside the try block
LogLoop(st, evs, isAmm, slot, signature, lid) ==
    IF evs = <<>> THEN st
    ELSE LogLoop(LogStep(st, Head(evs), isAmm, slot, signature, lid),
                 Tail(evs), isAmm, slot, signature, lid)

\* the parsed events a log notification can hold: none, one, or two trades of one
\* transaction
ParsedLogs(events) ==
    {<<>>} \cup {<<e>> : e \in events}
           \cup {<<e, e>> : e \in events \cap GoodPumpEvents}

\* the parsed events a pump_amm log notification can hold: none, one, or two events of
\* one transaction, of this pool or of another one
AmmParsedLogs ==
    {<<>>} \cup {<<e>> : e \in AmmLogEvents}
           \cup {<<a, b>> : a \in {e \in GoodAmmEvents : e.name = "BuyEvent"},
                            b \in {e \in GoodAmmEvents : e.name = "SellEvent"}}

\* the number of TradeEvents a log notification holds
TradeEventsIn(parsed) ==
    IF parsed = None THEN 0
    ELSE Cardinality({k \in DOMAIN parsed[1] : parsed[1][k].name = "TradeEvent"})

\* the direction named by the first event of a log notification, when a TradeEvent
FirstTradeType(parsed) ==
    IF parsed = None \/ parsed = Some(<<>>) THEN "none"
    ELSE IF parsed[1][1].name # "TradeEvent" THEN "none"
    ELSE IF parsed[1][1].is_buy THEN "buy" ELSE "sell"

\* One log notification.  parsed = None: parseLogs threw; Some(events) otherwise.
HandleLogs(parsed, slot) ==
    /\ logsListenerId # Null
    /\ nAccount + Len(logs) < MaxNotifications
    /\ slot >= feedSlot.logs
    /\ feedSlot' = [feedSlot EXCEPT !.logs = slot]
    /\ logs' = Append(logs, [slot |-> slot, at |-> now, n |-> TradeEventsIn(parsed),
                             type |-> FirstTradeType(parsed)])
    /\ lastCall' = Call("logs", slot, parsed)
    /\ IF ~eventParser \/ parsed = None
       THEN /\ emitted' = <<>>
            /\ UNCHANGED <<pendingTrades, eventCount, trades>>
       ELSE LET lid == Len(logs) + 1
                st == LogLoop([pt |-> pendingTrades, cnt |-> eventCount,
                               out |-> <<>>, thrown |-> FALSE],
                              parsed[1], programType = "pump_amm", slot,
                              SignatureOf(lid), lid)
            IN  /\ pendingTrades' = st.pt
                /\ eventCount' = st.cnt
                /\ emitted' = st.out
                /\ trades' = Counted(trades, st.out)
    /\ UNCHANGED <<now, phase, programType, eventParser, subscribed, statusError,
                   accountListenerId, logsListenerId, prevReserves, timers,
                   nAccount, cancels>>
    /\ UNCHANGED serverVars
    /\ UNCHANGED apiVars
    /\ UNCHANGED deliveryVars

\* ------------------------------------------------------------ subscribe / unsubscribe
\* what the two getAccountInfo calls and the two listener registrations do
SubscribeOutcomes ==
    {"ok", "lookup_rejects", "not_found", "other_owner", "fetch_rejects",
     "onAccountChange_throws", "onLogs_throws"}

\* how far subscribe() gets under an outcome: owner looked up, initial account fetched,
\* account listener registered, logs listener registered
OwnerKnown_anyOwner(outcome) == outcome \notin {"lookup_rejects", "not_found"}

OwnerKnown(outcome) == outcome \notin {"lookup_rejects", "not_found", "other_owner"}

Fetched(outcome) == OwnerKnown(outcome) /\ outcome # "fetch_rejects"

AccountOpen(outcome) == Fetched(outcome) /\ outcome # "onAccountChange_throws"

LogsOpen(outcome) == AccountOpen(outcome) /\ outcome # "onLogs_throws"

StatusSubscribed_early(outcome) == Fetched(outcome)

\* this.status.subscribed = true, reached when nothing before it threw
StatusSubscribed(outcome) == LogsOpen(outcome)

\* subscribe() from its try block on
SubscribeBody(outcome, owner, initial) ==
    /\ ~subscribed
    /\ programType' = IF OwnerKnown(outcome) THEN owner ELSE programType
    /\ eventParser' = (OwnerKnown(outcome) \/ eventParser)
    /\ prevReserves' = IF Fetched(outcome) /\ initial # None
                       THEN Some(SnapshotOf(initial[1])) ELSE prevReserves
    /\ accountListenerId' = IF AccountOpen(outcome) THEN "accountListener"
                            ELSE accountListenerId
    /\ logsListenerId' = IF LogsOpen(outcome) THEN "logsListener" ELSE logsListenerId
    /\ subscribed' = StatusSubscribed(outcome)
    /\ statusError' = (statusError \/ ~LogsOpen(outcome))
    /\ phase' = IF LogsOpen(outcome) THEN "active" ELSE "failed"
    /\ lastCall' = Call("subscribe", 0, initial)
    /\ emitted' = <<>>
    /\ UNCHANGED <<now, pendingTrades, timers, eventCount,
                   trades, logs, feedSlot, nAccount, cancels>>
    /\ UNCHANGED serverVars
    /\ UNCHANGED apiVars
    /\ UNCHANGED deliveryVars

\* subscribe() on a new object.  outcome: where it throws, if at all; owner: the program
\* owning the account; initial: the account fetched for the first snapshot
Subscribe(outcome, owner, initial) ==
    /\ phase = "new"
    /\ SubscribeBody(outcome, owner, initial)

\* subscribe() called again on an object whose subscribe() failed or that was
\* unsubscribed; the cancelled listeners and the notifications handled share one budget
SubscribeAgain(outcome, owner, initial) ==
    /\ phase \in {"failed", "closed"}
    /\ cancels.account + nAccount + Len(logs) < MaxNotifications
    /\ SubscribeBody(outcome, owner, initial)

ErrorAfterRejected_set(err) == TRUE

\* throw new Error('Already subscribed') stands before the try whose catch assigns
\* status.error
ErrorAfterRejected(err) == err

\* subscribe() called while status.subscribed: throws before the try block
SubscribeRejected ==
    /\ subscribed
    /\ lastCall.op # "subscribe_rejected"
    /\ lastCall' = Call("subscribe_rejected", 0, None)
    /\ emitted' = <<>>
    /\ statusError' = ErrorAfterRejected(statusError)
    /\ UNCHANGED <<now, phase, programType, eventParser, subscribed,
                   accountListenerId, logsListenerId, prevReserves, pendingTrades,
                   timers, eventCount, trades, logs, feedSlot, nAccount, cancels>>
    /\ UNCHANGED serverVars
    /\ UNCHANGED apiVars
    /\ UNCHANGED deliveryVars

UnsubscribeClear_keeps(pt) == pt

\* this.pendingTrades.clear()
UnsubscribeClear(pt) == EmptyMap

CancelIssued_always(handle) == TRUE

\* if (this.accountListenerId !== null) / if (this.logsListenerId !== null)
CancelIssued(handle) == handle # Null

CountAfterUnsubscribe_reset(n) == 0

\* unsubscribe() assigns status.subscribed and status.listenerId only
CountAfterUnsubscribe(n) == n

\* the body of unsubscribe()
UnsubscribeBody ==
    /\ cancels' = [account |-> cancels.account + (IF CancelIssued(accountListenerId) THEN 1 ELSE 0),
                   logs |-> cancels.logs + (IF CancelIssued(logsListenerId) THEN 1 ELSE 0)]
    /\ accountListenerId' = Null
    /\ logsListenerId' = Null
    /\ prevReserves' = None
    /\ eventParser' = FALSE
    /\ pendingTrades' = UnsubscribeClear(pendingTrades)
    /\ subscribed' = FALSE
    /\ phase' = "closed"
    /\ eventCount' = CountAfterUnsubscribe(eventCount)
    /\ lastCall' = Call("unsubscribe", 0, None)
    /\ emitted' = <<>>
    /\ UNCHANGED <<now, programType, statusError, timers,
                   trades, logs, feedSlot, nAccount>>
    /\ UNCHANGED serverVars
    /\ UNCHANGED apiVars
    /\ UNCHANGED deliveryVars

\* unsubscribe() after a successful subscribe()
Unsubscribe ==
    /\ phase \in {"active", "closed"}
    /\ UnsubscribeBody

\* unsubscribe() on an object whose subscribe() failed
UnsubscribeFailed ==
    /\ phase = "failed"
    /\ UnsubscribeBody

\* ------------------------------------------------------------ server.ts: /ws/txs
\* a forEach over listeners: the set iterated, the listeners reached, those whose call
\* threw, those not called at all, and whether an exception left the loop
NoRun == [entry |-> NoEntry, listeners |-> {}, reached |-> {}, threw |-> {},
          skipped |-> {}, escaped |-> FALSE]

\* a TransactionSubscription as the server sees it: made (constructed), account / logs
\* (TRUE iff accountListenerId / logsListenerId is not null), status.subscribed,
\* error (TRUE iff status.error is set), status.programType, the upstream cancels
\* issued, and (history) how its subscribe() ended
FreshSub ==
    [made |-> FALSE, account |-> FALSE, logs |-> FALSE, subscribed |-> FALSE,
     error |-> FALSE, programType |-> Null, outcome |-> Null,
     cancels |-> [account |-> 0, logs |-> 0]]

\* the object after subscribe() ended with the outcome, for an account owned by owner
SubscribedSub(sub, outcome, owner) ==
    [sub EXCEPT !.account = AccountOpen(outcome),
                !.logs = LogsOpen(outcome),
                !.subscribed = StatusSubscribed(outcome),
                !.error = ~LogsOpen(outcome),
                !.programType = IF OwnerKnown(outcome) THEN owner ELSE @,
                !.outcome = outcome]

\* the object after unsubscribe()
UnsubscribedSub(sub) ==
    [sub EXCEPT !.cancels = [account |-> @.account + (IF sub.account THEN 1 ELSE 0),
                             logs |-> @.logs + (IF sub.logs THEN 1 ELSE 0)],
                !.account = FALSE,
                !.logs = FALSE,
                !.subscribed = FALSE]

\* outcomes of subscribe() seen by the server: resolved, or rejected by the RPC node
ServerOutcomes == {"ok", "lookup_rejects"}

Welcome_never(first, open) == first

\* ws.send(JSON.stringify({ type: 'connected', ... })): the first message of the socket
\* afterwards; a socket that is not open takes no message
Welcome(first, open) == IF open /\ first = Null THEN "connected" ELSE first

\* ws.close(code, reason) called by the server
ServerClose(c) == [ws EXCEPT ![c] = IF @ = "open" THEN "closing" ELSE @]

\* ---- the request URL of a connection to /ws/txs
\* A string is kept as the length of its leading run of characters from [A-Za-z0-9]
\* and whether a character outside that class (such as '-') follows the run; an absent
\* string (null) has some = FALSE.
Absent == [some |-> FALSE, run |-> 0, tail |-> FALSE]

Text(run, tail) == [some |-> TRUE, run |-> run, tail |-> tail]

\* lengths of the leading run around the two repetition counts of the pattern
RunLengths == {0, MIN_ADDRESS_LENGTH - 1, MIN_ADDRESS_LENGTH,
               MAX_ADDRESS_LENGTH, MAX_ADDRESS_LENGTH + 1}

\* req.url: /ws/txs?bondingCurve=<value> ("named"), /ws/txs?=<value> ("bare"), or
\* /ws/txs with no query ("none")
Urls ==
    {[form |-> "none", run |-> 0, tail |-> FALSE]} \cup
    {[form |-> f, run |-> n, tail |-> t] :
        f \in {"named", "bare"}, n \in RunLengths, t \in BOOLEAN}

\* a request with a well-formed address and a request with no parameter
PlainUrls == {[form |-> "named", run |-> MAX_ADDRESS_LENGTH, tail |-> FALSE],
              [form |-> "none", run |-> 0, tail |-> FALSE]}

\* the bondingCurve parameter the client sent, in either documented format
SentParameter(url) == IF url.form = "none" THEN Absent ELSE Text(url.run, url.tail)

\* !value for a string or null: null and the empty string are falsy
Truthy(value) == value.some /\ (value.run > 0 \/ value.tail)

\* /^[A-Za-z0-9]{32,44}$/.test(value)
MatchesAddress(value) ==
    /\ value.some
    /\ ~value.tail
    /\ value.run >= MIN_ADDRESS_LENGTH
    /\ value.run <= MAX_ADDRESS_LENGTH

\* url.searchParams.get('bondingCurve'): the whole value of the parameter of that
\* name, null when the query has no such name (the name of ?=<value> is empty)
SearchParam(url) == IF url.form = "named" THEN Text(url.run, url.tail) ELSE Absent

\* the group of urlString.match(/<prefix>([A-Za-z0-9]{32,44})/): the pattern is not
\* anchored at its end, so the group is the first 32 to 44 characters of the run and
\* whatever follows them is left out
Captured(run) ==
    IF run >= MIN_ADDRESS_LENGTH
    THEN Text(IF run > MAX_ADDRESS_LENGTH THEN MAX_ADDRESS_LENGTH ELSE run, FALSE)
    ELSE Absent

\* match1 on /\/ws\/txs\?=(...)/, else match2 on /\/ws\/txs\?bondingCurve=(...)/
ManualParse(url) ==
    IF url.form = "bare" THEN Captured(url.run)
    ELSE IF url.form = "named" THEN Captured(url.run)
    ELSE Absent

\* the value of bondingCurve when the handler reaches its check
ParsedBondingCurve(url) ==
    IF Truthy(SearchParam(url)) THEN SearchParam(url) ELSE ManualParse(url)

\* the negation of !bondingCurve || !/^[A-Za-z0-9]{32,44}$/.test(bondingCurve)
PassesCheck(url) ==
    Truthy(ParsedBondingCurve(url)) /\ MatchesAddress(ParsedBondingCurve(url))

NotChecked == [seen |-> FALSE, matches |-> FALSE, code |-> 0]

\* the connection handler from its start to its return or to its await.
\* url: the URL of the upgrade request.
Connection(c, url) ==
    /\ ws[c] = "new"
    /\ paramCheck' = [paramCheck EXCEPT ![c] =
            [seen |-> TRUE,
             matches |-> MatchesAddress(SentParameter(url)),
             code |-> IF PassesCheck(url) THEN 0 ELSE INVALID_PARAMETER_CODE]]
    /\ IF ~PassesCheck(url)
       THEN /\ ws' = [ws EXCEPT ![c] = "closing"]
            /\ pc' = [pc EXCEPT ![c] = "rejected"]
            /\ UNCHANGED <<registry, entryClients, closure, subs, firstMsg>>
       ELSE IF registry # NoEntry
       THEN /\ ws' = [ws EXCEPT ![c] = "open"]
            /\ closure' = [closure EXCEPT ![c] = registry]
            /\ entryClients' = [entryClients EXCEPT ![registry] = @ \cup {c}]
            /\ firstMsg' = [firstMsg EXCEPT ![c] = Welcome(@, TRUE)]
            /\ pc' = [pc EXCEPT ![c] = "joined"]
            /\ UNCHANGED <<registry, subs>>
       ELSE /\ ws' = [ws EXCEPT ![c] = "open"]
            /\ subs' = [subs EXCEPT ![c].made = TRUE]
            /\ pc' = [pc EXCEPT ![c] = "await"]
            /\ UNCHANGED <<registry, entryClients, closure, firstMsg>>
    /\ broadcast' = NoRun
    /\ UNCHANGED <<callbacks, notified>>
    /\ UNCHANGED engineVars
    /\ UNCHANGED apiVars

\* the connection handler from the return of await subscription.subscribe() to its end.
\* sendThrows: whether ws.send() throws on a socket that is no longer open.
ConnectionResume(c, outcome, owner, sendThrows) ==
    /\ pc[c] = "await"
    /\ subs' = [subs EXCEPT ![c] = SubscribedSub(@, outcome, owner)]
    /\ IF LogsOpen(outcome)
       THEN /\ registry' = c
            /\ entryClients' = [entryClients EXCEPT ![c] = {c}]
            /\ closure' = [closure EXCEPT ![c] = c]
            /\ firstMsg' = [firstMsg EXCEPT ![c] = Welcome(@, ws[c] = "open")]
            /\ IF ws[c] # "open" /\ sendThrows
               THEN /\ pc' = [pc EXCEPT ![c] = "rejected"]
                    /\ ws' = ServerClose(c)
               ELSE /\ pc' = [pc EXCEPT ![c] = "joined"]
                    /\ UNCHANGED ws
       ELSE /\ pc' = [pc EXCEPT ![c] = "rejected"]
            /\ ws' = ServerClose(c)
            /\ UNCHANGED <<registry, entryClients, closure, firstMsg>>
    /\ UNCHANGED paramCheck
    /\ broadcast' = NoRun
    /\ UNCHANGED <<callbacks, notified>>
    /\ UNCHANGED engineVars
    /\ UNCHANGED apiVars

ShouldTearDown_always(remaining) == TRUE

\* subscriptionData.clients.size === 0
ShouldTearDown(remaining) == remaining = {}

\* the 'close' / 'error' handlers registered on the socket of client c when the event
\* is emitted: the logging ones always, the releasing ones once the handler has joined
RunHandlers(c) ==
    IF pc[c] # "joined"
    THEN UNCHANGED <<registry, entryClients, subs>>
    ELSE LET e == closure[c]
             remaining == entryClients[e] \ {c}
         IN  /\ entryClients' = [entryClients EXCEPT ![e] = remaining]
             /\ IF ShouldTearDown(remaining)
                THEN /\ subs' = [subs EXCEPT ![e] = UnsubscribedSub(@)]
                     /\ registry' = NoEntry
                ELSE UNCHANGED <<registry, subs>>

\* the socket emits 'error' (it is closing from then on)
SocketError(c) ==
    /\ ws[c] = "open"
    /\ ws' = [ws EXCEPT ![c] = "closing"]
    /\ RunHandlers(c)
    /\ UNCHANGED <<pc, closure, firstMsg, paramCheck>>
    /\ broadcast' = NoRun
    /\ UNCHANGED <<callbacks, notified>>
    /\ UNCHANGED engineVars
    /\ UNCHANGED apiVars

\* the socket emits 'close'
SocketClose(c) ==
    /\ ws[c] \in {"open", "closing"}
    /\ ws' = [ws EXCEPT ![c] = "closed"]
    /\ RunHandlers(c)
    /\ UNCHANGED <<pc, closure, firstMsg, paramCheck>>
    /\ broadcast' = NoRun
    /\ UNCHANGED <<callbacks, notified>>
    /\ UNCHANGED engineVars
    /\ UNCHANGED apiVars

\* ------------------------------------------------------------ delivery to listeners
\* the callbacks a user of the class registers
CallbackIds == 1 .. MaxCallbacks

CatchCallback_rethrows(st) == [st EXCEPT !.escaped = TRUE]

\* try { callback(event) } catch (error) { }
CatchCallback(st) == st

\* try { client.send(message) } catch (error) { console.error(...) }
CatchSend(st) == st

\* one iteration of this.callbacks.forEach
NotifyOne(st, cb, throwing) ==
    IF st.escaped THEN st
    ELSE IF cb \in throwing
    THEN CatchCallback([st EXCEPT !.threw = @ \cup {cb}])
    ELSE [st EXCEPT !.reached = @ \cup {cb}]

\* one iteration of subscriptionData.clients.forEach
SendOne(st, client, failing) ==
    IF st.escaped THEN st
    ELSE IF ws[client] # "open" THEN [st EXCEPT !.skipped = @ \cup {client}]
    ELSE IF client \in failing
    THEN CatchSend([st EXCEPT !.threw = @ \cup {client}])
    ELSE [st EXCEPT !.reached = @ \cup {client}]

RECURSIVE NotifyAll(_, _, _)
\* this.callbacks.forEach(...), in the order of registration (here: of the ids)
NotifyAll(st, todo, throwing) ==
    IF todo = {} THEN st
    ELSE LET cb == CHOOSE x \in todo : \A y \in todo : x <= y
         IN  NotifyAll(NotifyOne(st, cb, throwing), todo \ {cb}, throwing)

RECURSIVE SendAll(_, _, _)
\* subscriptionData.clients.forEach(...)
SendAll(st, todo, failing) ==
    IF todo = {} THEN st
    ELSE LET client == CHOOSE x \in todo : \A y \in todo : x <= y
         IN  SendAll(SendOne(st, client, failing), todo \ {client}, failing)

\* onTransaction(callback)
OnTransaction(cb) ==
    /\ cb \notin callbacks
    /\ callbacks' = callbacks \cup {cb}
    /\ notified' = NoRun
    /\ UNCHANGED broadcast
    /\ UNCHANGED engineVars
    /\ UNCHANGED serverVars
    /\ UNCHANGED apiVars

\* the function returned by onTransaction(callback)
Dispose(cb) ==
    /\ cb \in callbacks
    /\ callbacks' = callbacks \ {cb}
    /\ notified' = NoRun
    /\ UNCHANGED broadcast
    /\ UNCHANGED engineVars
    /\ UNCHANGED serverVars
    /\ UNCHANGED apiVars

\* notifyCallbacks(event); throwing: the callbacks that throw on this event
NotifyCallbacks(throwing) ==
    /\ callbacks # {}
    /\ throwing \subseteq callbacks
    /\ notified' = NotifyAll([NoRun EXCEPT !.listeners = callbacks], callbacks, throwing)
    /\ UNCHANGED <<callbacks, broadcast>>
    /\ UNCHANGED engineVars
    /\ UNCHANGED serverVars
    /\ UNCHANGED apiVars

\* the callback the server registered on subscription e runs on an event;
\* failing: the clients whose send() throws
Broadcast(e, failing) ==
    /\ subs[e].subscribed
    /\ failing \subseteq entryClients[e]
    /\ broadcast' = SendAll([NoRun EXCEPT !.entry = e, !.listeners = entryClients[e]],
                            entryClients[e], failing)
    /\ firstMsg' = [c \in Clients |->
                        IF c \in broadcast'.reached /\ firstMsg[c] = Null
                        THEN "trade" ELSE firstMsg[c]]
    /\ UNCHANGED <<callbacks, notified>>
    /\ UNCHANGED engineVars
    /\ UNCHANGED <<ws, pc, registry, entryClients, closure, subs, paramCheck>>
    /\ UNCHANGED apiVars

\* ------------------------------------------------------------ GET /api/topholders/:mint
Requests == 1 .. MaxRequests

Mints == {"mintA", "mintB"}

\* the step of the clock while requests are served
CacheTickMs == CACHE_TTL \div 2

\* a request not yet made.  pc: "idle", "fetching" (at await getTopHolders(mint)),
\* "done"; at: Date.now() when the cache was read; seen: the entry the cache held then;
\* answer: "invalid" (400), "cache", "fetch", "error" (500); data: the body sent
NoRequest == [pc |-> "idle", mint |-> Null, at |-> 0, seen |-> None,
              answer |-> Null, data |-> 0]

Expired_atBound(age) == age >= CACHE_TTL

\* if (age > CACHE_TTL)
Expired(age) == age > CACHE_TTL

\* getCachedTopHolders(mint): the data returned (None for null)
CachedData(mint) ==
    IF topHoldersCache[mint] = None THEN None
    ELSE IF Expired(now - topHoldersCache[mint][1].timestamp) THEN None
    ELSE Some(topHoldersCache[mint][1].data)

\* getCachedTopHolders(mint): the cache it leaves
CacheAfterGet(mint) ==
    IF topHoldersCache[mint] # None /\ Expired(now - topHoldersCache[mint][1].timestamp)
    THEN [topHoldersCache EXCEPT ![mint] = None]
    ELSE topHoldersCache

\* setCachedTopHolders(mint, data)
CacheAfterSet(mint, data) ==
    [topHoldersCache EXCEPT ![mint] = Some([data |-> data, timestamp |-> now])]

\* the variables a request handler never touches, the clock included
ApiFrame ==
    /\ UNCHANGED <<phase, programType, eventParser, subscribed, statusError,
                   accountListenerId, logsListenerId, prevReserves, pendingTrades,
                   timers, eventCount, emitted, lastCall, trades, logs, feedSlot,
                   nAccount, cancels>>
    /\ UNCHANGED serverVars
    /\ UNCHANGED deliveryVars

\* the route handler from its start to its response or to await getTopHolders(mint);
\* requests are numbered in the order of their arrival.
\* valid: the mint passes the pattern and new PublicKey(mint)
TopHoldersRequest(r, mint, valid) ==
    /\ req[r].pc = "idle"
    /\ \A q \in Requests : q < r => req[q].pc # "idle"
    /\ lastApi' = [op |-> "request", r |-> r]
    /\ IF ~valid
       THEN /\ req' = [req EXCEPT ![r] = [@ EXCEPT !.pc = "done", !.mint = mint,
                                                   !.at = now, !.answer = "invalid"]]
            /\ UNCHANGED topHoldersCache
       ELSE LET cached == CachedData(mint)
            IN  /\ topHoldersCache' = CacheAfterGet(mint)
                /\ req' = [req EXCEPT ![r] =
                              IF cached # None
                              THEN [@ EXCEPT !.pc = "done", !.mint = mint, !.at = now,
                                             !.seen = topHoldersCache[mint],
                                             !.answer = "cache", !.data = cached[1]]
                              ELSE [@ EXCEPT !.pc = "fetching", !.mint = mint, !.at = now,
                                             !.seen = topHoldersCache[mint]]]
    /\ UNCHANGED <<now, retry>>
    /\ ApiFrame

\* await getTopHolders(mint) returns (the data is named by the request that fetched
\* it) or throws
TopHoldersResume(r, ok) ==
    /\ req[r].pc = "fetching"
    /\ lastApi' = [op |-> "resume", r |-> r]
    /\ IF ok
       THEN /\ topHoldersCache' = CacheAfterSet(req[r].mint, r)
            /\ req' = [req EXCEPT ![r] = [@ EXCEPT !.pc = "done", !.answer = "fetch",
                                                   !.data = r]]
       ELSE /\ req' = [req EXCEPT ![r] = [@ EXCEPT !.pc = "done", !.answer = "error"]]
            /\ UNCHANGED topHoldersCache
    /\ UNCHANGED <<now, retry>>
    /\ ApiFrame

\* time passes between and during requests
CacheTick ==
    /\ now < MaxCacheTicks * CacheTickMs
    /\ now' = now + CacheTickMs
    /\ lastApi' = [op |-> "tick", r |-> 0]
    /\ UNCHANGED <<topHoldersCache, req, retry>>
    /\ ApiFrame

\* ------------------------------------------------------------ retryWithBackoff
\* initialDelay: the default 500 and another value
Delays == {100, 500}

\* what one await fn() does: resolves, rejects with a 429 error, rejects otherwise
FnOutcomes == {"ok", "rate_limit", "other"}

\* before the call.  pc: "idle", "calling" (at await fn()), "waiting" (at the await of
\* the delay), "returned", "thrown"; error: what was thrown
NoRetry == [pc |-> "idle", maxRetries |-> 0, initialDelay |-> 0, attempt |-> 0,
            kinds |-> <<>>, waits |-> <<>>, error |-> Null]

\* error?.message?.includes('429') || ...includes('Too many requests') || error?.code === 429
IsRateLimit(outcome) == outcome = "rate_limit"

ShouldRethrow_noLastCheck(isRateLimit, attempt, maxRetries) == ~isRateLimit

\* if (!isRateLimit || attempt === maxRetries - 1) throw error
ShouldRethrow(isRateLimit, attempt, maxRetries) ==
    ~isRateLimit \/ attempt = maxRetries - 1

\* initialDelay * Math.pow(2, attempt)
BackoffDelay(initialDelay, attempt) == initialDelay * 2^attempt

\* the loop test `attempt < maxRetries` and what follows the loop
LoopTest(r) ==
    IF r.attempt < r.maxRetries THEN [r EXCEPT !.pc = "calling"]
    ELSE [r EXCEPT !.pc = "thrown",
                   !.error = IF r.kinds = <<>> THEN "max_retries_exceeded"
                             ELSE r.kinds[Len(r.kinds)]]

\* the variables retryWithBackoff never touches
RetryFrame ==
    /\ UNCHANGED <<now, topHoldersCache, req, lastApi>>
    /\ ApiFrame

\* retryWithBackoff(fn, maxRetries, initialDelay) is called
RetryStart(maxRetries, initialDelay) ==
    /\ retry.pc = "idle"
    /\ retry' = LoopTest([retry EXCEPT !.maxRetries = maxRetries,
                                       !.initialDelay = initialDelay])
    /\ RetryFrame

\* await fn() settles
RetryCall(outcome) ==
    /\ retry.pc = "calling"
    /\ LET called == [retry EXCEPT !.kinds = Append(@, outcome)]
       IN  retry' =
             IF outcome = "ok" THEN [called EXCEPT !.pc = "returned"]
             ELSE IF ShouldRethrow(IsRateLimit(outcome), retry.attempt, retry.maxRetries)
             THEN [called EXCEPT !.pc = "thrown", !.error = outcome]
             ELSE [called EXCEPT !.pc = "waiting",
                                 !.waits = Append(@, BackoffDelay(retry.initialDelay,
                                                                  retry.attempt))]
    /\ RetryFrame

\* the delay is over: attempt++ and the loop test
RetryWake ==
    /\ retry.pc = "waiting"
    /\ retry' = LoopTest([retry EXCEPT !.attempt = @ + 1])
    /\ RetryFrame

\* ------------------------------------------------------------ specification
Init ==
    /\ now = 0
    /\ phase = "new"
    /\ programType = Null
    /\ eventParser = FALSE
    /\ subscribed = FALSE
    /\ statusError = FALSE
    /\ accountListenerId = Null
    /\ logsListenerId = Null
    /\ prevReserves = None
    /\ pendingTrades = EmptyMap
    /\ timers = {}
    /\ eventCount = 0
    /\ emitted = <<>>
    /\ trades = <<>>
    /\ logs = <<>>
    /\ feedSlot = [account |-> 0, logs |-> 0]
    /\ nAccount = 0
    /\ cancels = [account |-> 0, logs |-> 0]
    /\ lastCall = Call("new", 0, None)
    /\ ws = [c \in Clients |-> "new"]
    /\ pc = [c \in Clients |-> "idle"]
    /\ registry = NoEntry
    /\ entryClients = [c \in Clients |-> {}]
    /\ closure = [c \in Clients |-> NoEntry]
    /\ subs = [c \in Clients |-> FreshSub]
    /\ firstMsg = [c \in Clients |-> Null]
    /\ paramCheck = [c \in Clients |-> NotChecked]
    /\ callbacks = {}
    /\ notified = NoRun
    /\ broadcast = NoRun
    /\ topHoldersCache = [m \in Mints |-> None]
    /\ req = [r \in Requests |-> NoRequest]
    /\ lastApi = [op |-> "none", r |-> 0]
    /\ retry = NoRetry

Snapshots == {None} \cup {Some(r) : r \in Reserves}

\* the account data of SpecAny: undecodable, or one of two snapshots that are a buy
\* in one order and a sell in the other
AnySnapshots ==
    {None} \cup {Some(r) : r \in {x \in Reserves :
                                    (x.virtual_sol_reserves = 1) = (x.virtual_token_reserves = 2)}}

\* the slots of SpecAny: every notification is of the same slot
AnySlots == {s \in Slots : \A u \in Slots : s <= u}

\* every operation of a TransactionSubscription, with every outcome of subscribe() and
\* subscribe() called again (the account keeps its owner); each log notification holds
\* at most one event
NextAny ==
    \/ \E outcome \in SubscribeOutcomes, owner \in {"pump", "pump_amm"},
          initial \in AnySnapshots :
            Subscribe(outcome, owner, initial)
    \/ \E outcome \in SubscribeOutcomes,
          owner \in IF programType = Null THEN {"pump", "pump_amm"} ELSE {programType},
          initial \in AnySnapshots :
            SubscribeAgain(outcome, owner, initial)
    \/ SubscribeRejected
    \/ Unsubscribe
    \/ UnsubscribeFailed
    \/ \E data \in AnySnapshots, slot \in AnySlots : HandleAccountChange(data, slot)
    \/ \E parsed \in {None} \cup {Some(<<e>>) : e \in GoodPumpEvents \cup GoodAmmEvents},
          slot \in AnySlots :
            HandleLogs(parsed, slot)
    \/ \E t \in timers : TimerFire(t)
    \/ Tick

SpecAny == Init /\ [][NextAny]_vars

\* a subscription to a bonding curve owned by the pump program (Variant A)
Next ==
    \/ \E initial \in Snapshots : Subscribe("ok", "pump", initial)
    \/ Unsubscribe
    \/ \E data \in Snapshots, slot \in Slots : HandleAccountChange(data, slot)
    \/ \E parsed \in {None} \cup {Some(p) : p \in ParsedLogs(PumpLogEvents)},
          slot \in Slots :
            HandleLogs(parsed, slot)
    \/ \E t \in timers : TimerFire(t)
    \/ Tick

Spec == Init /\ [][Next]_vars

\* a pump subscription whose timers may run late; each log notification holds one trade
NextLate ==
    \/ \E initial \in Snapshots : Subscribe("ok", "pump", initial)
    \/ Unsubscribe
    \/ \E data \in Snapshots, slot \in Slots : HandleAccountChange(data, slot)
    \/ \E parsed \in {None} \cup {Some(<<e>>) : e \in GoodPumpEvents}, slot \in Slots :
            HandleLogs(parsed, slot)
    \/ \E t \in timers : TimerFire(t)
    \/ TickLate

SpecLate == Init /\ [][NextLate]_vars

\* a subscription to a pool account owned by the pump_amm program (Variant B)
NextAmm ==
    \/ \E initial \in Snapshots : Subscribe("ok", "pump_amm", initial)
    \/ Unsubscribe
    \/ \E data \in Snapshots, slot \in Slots : HandleAccountChange(data, slot)
    \/ \E parsed \in {None} \cup {Some(p) : p \in AmmParsedLogs}, slot \in Slots :
            HandleLogs(parsed, slot)
    \/ \E t \in timers : TimerFire(t)
    \/ Tick

SpecAmm == Init /\ [][NextAmm]_vars

\* the /ws/txs clients of one bonding curve: connections, the resumption of each
\* handler after its await, and the sockets' 'error' and 'close' events, in any order
ServerNext ==
    \/ \E c \in Clients, url \in PlainUrls : Connection(c, url)
    \/ \E c \in Clients, outcome \in ServerOutcomes, sendThrows \in BOOLEAN :
            ConnectionResume(c, outcome, "pump", sendThrows)
    \/ \E c \in Clients : SocketError(c)
    \/ \E c \in Clients : SocketClose(c)

SpecServer == Init /\ [][ServerNext]_vars

\* the clients of one bonding curve with the events broadcast to them, next to a
\* TransactionSubscription whose callbacks are registered through onTransaction()
DeliveryNext ==
    \/ \E c \in Clients, url \in PlainUrls : Connection(c, url)
    \/ \E c \in Clients, outcome \in ServerOutcomes, sendThrows \in BOOLEAN :
            ConnectionResume(c, outcome, "pump", sendThrows)
    \/ \E c \in Clients : SocketError(c)
    \/ \E c \in Clients : SocketClose(c)
    \/ \E e \in Clients, failing \in SUBSET Clients : Broadcast(e, failing)
    \/ \E cb \in CallbackIds : OnTransaction(cb)
    \/ \E cb \in CallbackIds : Dispose(cb)
    \/ \E throwing \in SUBSET CallbackIds : NotifyCallbacks(throwing)

SpecDelivery == Init /\ [][DeliveryNext]_vars

\* requests to GET /api/topholders/:mint in any order and overlap
CacheNext ==
    \/ \E r \in Requests, mint \in Mints, valid \in BOOLEAN : TopHoldersRequest(r, mint, valid)
    \/ \E r \in Requests, ok \in BOOLEAN : TopHoldersResume(r, ok)
    \/ CacheTick

SpecCache == Init /\ [][CacheNext]_vars

\* one call of retryWithBackoff with any arguments and any behaviour of fn
RetryNext ==
    \/ \E maxRetries \in 0 .. MaxRetries, initialDelay \in Delays :
            RetryStart(maxRetries, initialDelay)
    \/ \E outcome \in FnOutcomes : RetryCall(outcome)
    \/ RetryWake

\* fn() settles and the delay timer fires
SpecRetry == Init /\ [][RetryNext]_vars /\ WF_vars(RetryNext)

\* the same clients, with every place where subscribe() can throw
ServerNextAny ==
    \/ \E c \in Clients, url \in PlainUrls : Connection(c, url)
    \/ \E c \in Clients, outcome \in SubscribeOutcomes, owner \in {"pump", "pump_amm"},
          sendThrows \in BOOLEAN :
            ConnectionResume(c, outcome, owner, sendThrows)
    \/ \E c \in Clients : SocketError(c)
    \/ \E c \in Clients : SocketClose(c)

SpecServerAny == Init /\ [][ServerNextAny]_vars

\* the clients of one bonding curve, each connecting with any of the request URLs
UpgradeNext ==
    \/ \E c \in Clients, url \in Urls : Connection(c, url)
    \/ \E c \in Clients, outcome \in ServerOutcomes, sendThrows \in BOOLEAN :
            ConnectionResume(c, outcome, "pump", sendThrows)
    \/ \E c \in Clients : SocketError(c)
    \/ \E c \in Clients : SocketClose(c)

SpecUpgrade == Init /\ [][UpgradeNext]_vars

\* ------------------------------------------------------------ claims: vocabulary
\* the last step was handleAccountChange on data that decoded, with a previous snapshot
AccountPair ==
    /\ lastCall.op = "account"
    /\ lastCall.data # None
    /\ lastCall.pre.prevReserves # None

\* solDelta = curr.sol - prev.sol of that pair of snapshots
PairSolDelta ==
    lastCall.data[1].virtual_sol_reserves - lastCall.pre.prevReserves[1].virtual_sol_reserves

\* tokenDelta = prev.token - curr.token of that pair of snapshots
PairTokenDelta ==
    lastCall.pre.prevReserves[1].virtual_token_reserves - lastCall.data[1].virtual_token_reserves

\* the tids of the trades in a pending table
PendingTids(pt) == {pt[s].tid : s \in DOMAIN pt}

\* the pending table gained exactly one entry, a new trade at the notification's slot,
\* and kept every other entry as it was
OneTradeCreated ==
    LET slot == lastCall.slot
        before == lastCall.pre.pendingTrades
    IN  /\ slot \in DOMAIN pendingTrades
        /\ pendingTrades[slot].tid \notin PendingTids(before)
        /\ pendingTrades[slot].tid = Len(trades)
        /\ pendingTrades[slot].event.slot = slot
        /\ DOMAIN pendingTrades = DOMAIN before \cup {slot}
        /\ \A s \in DOMAIN pendingTrades \ {slot} : pendingTrades[s] = before[s]

\* ------------------------------------------------------------ claims
\* C1: two consecutive decoded snapshots with solDelta > 0 and tokenDelta > 0 create
\* exactly one provisional trade, of type 'buy', stored in the pending table at the
\* notification's slot, with amount = solDelta / 1e9.
C1_BuyInferred ==
    (AccountPair /\ PairSolDelta > 0 /\ PairTokenDelta > 0) =>
        /\ OneTradeCreated
        /\ pendingTrades[lastCall.slot].event.type = "buy"
        /\ pendingTrades[lastCall.slot].event.amount = <<PairSolDelta, LAMPORTS_PER_SOL>>

C1_Witness ==
    /\ AccountPair /\ PairSolDelta > 0 /\ PairTokenDelta > 0
    /\ lastCall.slot \in DOMAIN pendingTrades
    /\ pendingTrades[lastCall.slot].event.type = "buy"
    /\ lastCall.pre.pendingTrades # EmptyMap

\* C2: two consecutive decoded snapshots with solDelta < 0 and tokenDelta < 0 create
\* exactly one provisional trade, of type 'sell', stored in the pending table at the
\* notification's slot, with amount = |solDelta| / 1e9.
C2_SellInferred ==
    (AccountPair /\ PairSolDelta < 0 /\ PairTokenDelta < 0) =>
        /\ OneTradeCreated
        /\ pendingTrades[lastCall.slot].event.type = "sell"
        /\ pendingTrades[lastCall.slot].event.amount = <<0 - PairSolDelta, LAMPORTS_PER_SOL>>

C2_Witness ==
    /\ AccountPair /\ PairSolDelta < 0 /\ PairTokenDelta < 0
    /\ lastCall.slot \in DOMAIN pendingTrades
    /\ pendingTrades[lastCall.slot].event.type = "sell"
    /\ lastCall.pre.pendingTrades # EmptyMap

\* the deltas of the pair are no trade: one is zero, or their signs differ
PairIsNoTrade ==
    \/ PairSolDelta = 0
    \/ PairTokenDelta = 0
    \/ (PairSolDelta > 0 /\ PairTokenDelta < 0)
    \/ (PairSolDelta < 0 /\ PairTokenDelta > 0)

\* C3: a pair of consecutive snapshots with solDelta = 0, tokenDelta = 0 or deltas
\* of different signs creates no provisional trade, schedules no timer and emits
\* no TradeEvent.
C3_NoTradeInferred ==
    (AccountPair /\ PairIsNoTrade) =>
        /\ pendingTrades = lastCall.pre.pendingTrades
        /\ timers = lastCall.pre.timers
        /\ emitted = <<>>
        /\ eventCount = lastCall.pre.eventCount

C3_Witness ==
    /\ AccountPair
    /\ PairSolDelta > 0 /\ PairTokenDelta < 0
    /\ pendingTrades # EmptyMap
    /\ timers # {}

\* the distance of two slots
Dist(a, b) == IF a > b THEN a - b ELSE b - a

\* the last step was handleLogs on a notification whose first parsed event is a pump
\* TradeEvent that decodes
LogsTrade ==
    /\ lastCall.op = "logs"
    /\ lastCall.data # None
    /\ lastCall.data[1] # <<>>
    /\ lastCall.data[1][1].name = "TradeEvent"
    /\ lastCall.data[1][1].creator # Null

\* the slots of the trades that were pending within SLOT_WINDOW of the last call's slot
InWindow ==
    {s \in DOMAIN lastCall.pre.pendingTrades : Dist(s, lastCall.slot) <= SLOT_WINDOW}

\* the first of them in the order of the scan
FirstInWindow == CHOOSE s \in InWindow : \A u \in InWindow : s <= u

\* no provisional trade was passed to notifyCallbacks twice
NoTradeTwice == \A tid \in DOMAIN trades : trades[tid].n <= 1

C5_EveryTradeSurfaces ==
    phase = "active" =>
        \A tid \in DOMAIN trades :
            tid \in PendingTids(pendingTrades) \/ trades[tid].n >= 1

\* C6: a provisional trade is passed to notifyCallbacks at most once, in the step that
\* takes it out of the pending table, and once out of the table it never comes back
\* (only brand-new trades enter), so neither its timer nor a later log finds it again.
C6_LeavesOnce ==
    /\ \A tid \in DOMAIN trades :
          /\ trades[tid].n <= 1
          /\ trades[tid].n = 1 => tid \notin PendingTids(pendingTrades)
    /\ \A k \in DOMAIN emitted :
          emitted[k].tid # 0 =>
              /\ emitted[k].tid \in PendingTids(lastCall.pre.pendingTrades)
              /\ emitted[k].tid \notin PendingTids(pendingTrades)
    /\ \A tid \in PendingTids(pendingTrades) \ PendingTids(lastCall.pre.pendingTrades) :
          tid > lastCall.pre.ntrades

\* a log TradeEvent arrives within the window of a trade its timer has emitted, and is
\* emitted on its own
C6_Witness ==
    /\ LogsTrade
    /\ Len(logs) = 1
    /\ emitted # <<>>
    /\ emitted[1].via = "log"
    /\ \E tid \in DOMAIN trades :
          trades[tid].n = 1 /\ Dist(trades[tid].slot, lastCall.slot) <= SLOT_WINDOW

\* C7: a Variant-A log event of slot S is merged iff some pending trade has a slot S'
\* with |S - S'| <= 5; a pending trade with |S - S'| > 5 is not matched by it: it stays
\* pending, unchanged, with its timer armed, and the timer emits the pending trade of
\* its slot as it is, without a signature.
C7_Window ==
    /\ LogsTrade =>
          LET before == lastCall.pre.pendingTrades
          IN  /\ emitted # <<>>
              /\ (emitted[1].via = "merged") <=> (InWindow # {})
              /\ \A s \in DOMAIN before \ InWindow :
                    /\ s \in DOMAIN pendingTrades
                    /\ pendingTrades[s] = before[s]
                    /\ \A k \in DOMAIN emitted : emitted[k].tid # before[s].tid
                    /\ \E t \in timers :
                          t.slot = s /\ t.due <= before[s].timestamp + TIMEOUT_MS
    /\ (lastCall.op = "timer" /\ lastCall.slot \in DOMAIN lastCall.pre.pendingTrades) =>
          LET found == lastCall.pre.pendingTrades[lastCall.slot]
          IN  /\ emitted = <<Delivery(found.event, found.tid, 0, "timeout")>>
              /\ emitted[1].event.signature = Null
              /\ lastCall.slot \notin DOMAIN pendingTrades

\* a log TradeEvent is emitted on its own while a trade more than 5 slots away is pending
C7_Witness ==
    /\ LogsTrade
    /\ emitted[1].via = "log"
    /\ DOMAIN lastCall.pre.pendingTrades # {}
    /\ InWindow = {}

\* C8: one trade, whose log notification (one TradeEvent, of the same direction) and
\* account-change notification arrive within 5 slots and within the 2 s timeout of
\* each other, in either order, is delivered as exactly one TradeEvent once nothing
\* is pending.
C8_OneEventEitherOrder ==
    (/\ phase = "active"
     /\ Len(trades) = 1 /\ Len(logs) = 1 /\ logs[1].n = 1
     /\ logs[1].type = trades[1].type
     /\ Dist(trades[1].slot, logs[1].slot) <= SLOT_WINDOW
     /\ Dist(trades[1].at, logs[1].at) < TIMEOUT_MS
     /\ pendingTrades = EmptyMap /\ timers = {})
    => eventCount = 1

\* ------------------------------------------------------------ claims: the registry
\* the TransactionSubscriptions holding an upstream handle
OpenSubs == {e \in Clients : subs[e].account \/ subs[e].logs}

\* the clients whose socket is open
ConnectedClients == {c \in Clients : ws[c] = "open"}

\* the clients whose socket is on its way down: 'error' emitted or ws.close() called,
\* 'close' not yet emitted
ClosingClients == {c \in Clients : ws[c] = "closing"}

\* no connection handler is suspended at its await
NoneAwaiting == \A c \in Clients : pc[c] # "await"

\* C9: at every moment at most one TransactionSubscription of the key holds open
\* upstream handles, whatever the interleaving of the clients' connections.
C9_AtMostOneOpen == Cardinality(OpenSubs) <= 1

\* C10: whenever no connection handler is in the middle of its run, an upstream
\* subscription of the key is open (both handles) if a client of the key is connected,
\* and no upstream handle of the key is open if no client is connected (sockets that
\* are closing count on neither side).
C10_OpenIffClients ==
    NoneAwaiting =>
        /\ ConnectedClients # {} => \E e \in Clients : subs[e].account /\ subs[e].logs
        /\ ConnectedClients \cup ClosingClients = {} => OpenSubs = {}

\* C11: when the release step runs a second time for one socket ('close' after 'error',
\* the client already removed from its entry's clients), the registry map, the
\* subscriptions and every entry's clients are left as they were.
C11_SecondReleaseNoOp ==
    [][\A c \in Clients :
          (/\ pc[c] = "joined"
           /\ ws[c] = "closing"
           /\ c \notin entryClients[closure[c]]
           /\ ws'[c] = "closed")
          => /\ registry' = registry
             /\ subs' = subs
             /\ entryClients' = entryClients]_vars

\* client a created the entry, client b joined it afterwards, both handlers ran to
\* their end with the socket still open at that time (a client is in its entry's
\* clients exactly while its socket is open), and no other client ever connected
TwoClientsOneEntry(a, b) ==
    /\ a # b
    /\ pc[a] = "joined" /\ closure[a] = a
    /\ pc[b] = "joined" /\ closure[b] = a
    /\ \A c \in {a, b} : (c \in entryClients[a]) <=> (ws[c] = "open")
    /\ \A c \in Clients \ {a, b} : ws[c] = "new"

\* C12: two clients connect one after the other to the same key and then disconnect:
\* one upstream pair is opened, by the first; while one of the two is still connected
\* nothing has been cancelled and both handles are open; once both have disconnected
\* each handle has been cancelled exactly once.
C12_OnePairOneCancel ==
    \A a, b \in Clients :
        TwoClientsOneEntry(a, b) =>
            /\ ~subs[b].made
            /\ entryClients[a] # {} =>
                   /\ subs[a].account /\ subs[a].logs
                   /\ subs[a].cancels = [account |-> 0, logs |-> 0]
            /\ entryClients[a] = {} =>
                   /\ ~subs[a].account /\ ~subs[a].logs
                   /\ subs[a].cancels = [account |-> 1, logs |-> 1]

\* both clients have disconnected and their sockets have emitted 'close'
C12_Witness ==
    \E a, b \in Clients :
        /\ TwoClientsOneEntry(a, b)
        /\ entryClients[a] = {}
        /\ ws[a] = "closed" /\ ws[b] = "closed"
        /\ subs[a].cancels = [account |-> 1, logs |-> 1]

\* the connection handler of client c constructed a subscription whose subscribe()
\* threw: the handler ended in its catch without ever holding a subscriptionData
SubscribeFailed(c) ==
    /\ pc[c] = "rejected"
    /\ subs[c].made
    /\ closure[c] = NoEntry

\* C13: when subscribe() throws during a connection, no entry of that attempt is in
\* the registry and no upstream handle opened by the attempt stays open.
C13_FailsAtomically ==
    \A c \in Clients :
        SubscribeFailed(c) =>
            /\ registry # c
            /\ entryClients[c] = {}
            /\ ~subs[c].account
            /\ ~subs[c].logs

MergedFrom(d) ==
    LET pre == lastCall.pre.pendingTrades
    IN  pre[CHOOSE s \in DOMAIN pre : pre[s].tid = d.tid]

\* the deliveries of the last step that merged a provisional trade with a log event
MergedDeliveries == {k \in DOMAIN emitted : emitted[k].via = "merged"}

\* C15: the SOL amount of a merged TradeEvent is the amount of the provisional trade
\* it was merged from (solDelta / 1e9), whatever sol_amount the log event names.
C15_MergedAmountFromDelta ==
    \A k \in MergedDeliveries :
        emitted[k].event.amount = MergedFrom(emitted[k]).event.amount

\* C16: the type of a merged TradeEvent is the type of the provisional trade it was
\* merged from; the log event's is_buy does not change it.
C16_MergedTypeFromDelta ==
    \A k \in MergedDeliveries :
        emitted[k].event.type = MergedFrom(emitted[k]).event.type

\* a provisional buy was merged with a log event that says is_buy = false
C16_Witness ==
    /\ LogsTrade
    /\ Len(lastCall.data[1]) = 1
    /\ ~lastCall.data[1][1].is_buy
    /\ MergedDeliveries = {1}
    /\ MergedFrom(emitted[1]).event.type = "buy"
    /\ emitted[1].event.type = "buy"

\* the trader identities named by the events of the last log notification
LogUsers == {lastCall.data[1][j].user : j \in DOMAIN lastCall.data[1]}

\* C17: a TradeEvent built from a pump log event, merged or standalone, names in user
\* the trader of that log event and in signature the notification's signature.
C17_UserAndSignatureFromLog ==
    \A k \in DOMAIN emitted :
        emitted[k].via \in {"merged", "log"} =>
            /\ emitted[k].event.user \in LogUsers
            /\ emitted[k].event.signature = SignatureOf(emitted[k].lid)

\* C18: a TradeEvent emitted by the 2 s timeout carries no signature and no user.
C18_TimeoutEventAnonymous ==
    \A k \in DOMAIN emitted :
        emitted[k].via = "timeout" =>
            /\ emitted[k].event.signature = Null
            /\ emitted[k].event.user = Null

\* C19: the first account-change notification after subscribe() creates no provisional
\* trade, arms no timer and delivers no TradeEvent, whatever reserves it carries.
C19_FirstNotificationOnlyBaseline ==
    (lastCall.op = "account" /\ nAccount = 1) =>
        /\ pendingTrades = lastCall.pre.pendingTrades
        /\ timers = lastCall.pre.timers
        /\ Len(trades) = lastCall.pre.ntrades
        /\ emitted = <<>>

\* C20: after every account-change notification that decodes, prevReserves holds the
\* reserves of that notification, whichever branch was taken.
C20_SnapshotStored ==
    (lastCall.op = "account" /\ lastCall.data # None) =>
        /\ prevReserves # None
        /\ prevReserves[1].virtual_sol_reserves = lastCall.data[1].virtual_sol_reserves
        /\ prevReserves[1].virtual_token_reserves = lastCall.data[1].virtual_token_reserves

\* a notification with mixed-sign deltas (no trade) replaced a different snapshot
C20_Witness ==
    /\ AccountPair
    /\ PairIsNoTrade
    /\ PairSolDelta # 0
    /\ prevReserves # lastCall.pre.prevReserves
    /\ prevReserves[1].virtual_sol_reserves # prevReserves[1].virtual_token_reserves

\* C21: an account-change notification whose data does not decode delivers no event
\* and leaves prevReserves, the pending table, the timers and eventCount as they were.
C21_UndecodedIsNoOp ==
    (lastCall.op = "account" /\ lastCall.data = None) =>
        /\ emitted = <<>>
        /\ prevReserves = lastCall.pre.prevReserves
        /\ pendingTrades = lastCall.pre.pendingTrades
        /\ timers = lastCall.pre.timers
        /\ eventCount = lastCall.pre.eventCount
        /\ Len(trades) = lastCall.pre.ntrades

\* an undecodable notification arrived while a snapshot was stored and a trade pending
C21_Witness ==
    /\ lastCall.op = "account"
    /\ lastCall.data = None
    /\ prevReserves # None
    /\ pendingTrades # EmptyMap

\* the last step was handleLogs on a notification that parsed, for a pump_amm subscription
AmmLogs == lastCall.op = "logs" /\ lastCall.data # None /\ programType = "pump_amm"

\* the positions of the parsed events that are a BuyEvent or SellEvent of this pool
OwnPoolEvents ==
    {k \in DOMAIN lastCall.data[1] :
        /\ lastCall.data[1][k].name \in {"BuyEvent", "SellEvent"}
        /\ lastCall.data[1][k].pool = BondingCurveStr}

\* every parsed event of the last notification has fields that convert
AllConvert == \A k \in DOMAIN lastCall.data[1] : lastCall.data[1][k].user # Null

\* C22: for a pump_amm subscription a log notification delivers exactly one TradeEvent
\* per decoded BuyEvent or SellEvent whose pool is the subscription key, each built from
\* the log alone, and the pending table is left as it was.
C22_AmmOnePerOwnEvent ==
    (AmmLogs /\ AllConvert) =>
        /\ Len(emitted) = Cardinality(OwnPoolEvents)
        /\ \A k \in DOMAIN emitted :
               /\ emitted[k].via = "amm"
               /\ emitted[k].event.user = TraderStr
               /\ emitted[k].event.signature = SignatureOf(Len(logs))
               /\ emitted[k].event.slot = lastCall.slot
        /\ eventCount = lastCall.pre.eventCount + Cardinality(OwnPoolEvents)
        /\ pendingTrades = lastCall.pre.pendingTrades
        /\ timers = lastCall.pre.timers

\* a BuyEvent and a SellEvent of this pool arrived in one notification while an
\* account-inferred trade was pending in the slot window
C22_Witness ==
    /\ AmmLogs
    /\ Cardinality(OwnPoolEvents) = 2
    /\ Len(emitted) = 2
    /\ MatchSlots(lastCall.pre.pendingTrades, lastCall.slot) # {}

\* the positions of the parsed BuyEvent / SellEvent logs that name another pool
ForeignPoolEvents ==
    {k \in DOMAIN lastCall.data[1] :
        /\ lastCall.data[1][k].name \in {"BuyEvent", "SellEvent"}
        /\ lastCall.data[1][k].pool # BondingCurveStr}

\* C23: for a pump_amm subscription an event whose pool is not the subscription key
\* delivers nothing and is not counted, and the other events of the same notification
\* are still processed.
C23_ForeignPoolSkipped ==
    (AmmLogs /\ AllConvert /\ ForeignPoolEvents # {}) =>
        /\ \A k \in DOMAIN emitted : emitted[k].event.type \in
               {IF lastCall.data[1][j].name = "BuyEvent" THEN "buy" ELSE "sell" : j \in OwnPoolEvents}
        /\ Len(emitted) = Len(lastCall.data[1]) - Cardinality(ForeignPoolEvents)
        /\ eventCount = lastCall.pre.eventCount + Len(emitted)

\* a notification held an event of another pool first and an event of this pool second
C23_Witness ==
    /\ AmmLogs
    /\ Len(lastCall.data[1]) = 2
    /\ ForeignPoolEvents = {1}
    /\ OwnPoolEvents = {2}
    /\ Len(emitted) = 1

\* the last step was handleAccountChange on data that decoded
DecodedAccount == lastCall.op = "account" /\ lastCall.data # None

\* the slots whose pending entry the last step removed
SweptSlots == DOMAIN lastCall.pre.pendingTrades \ DOMAIN pendingTrades

\* C24: after every decoded account notification no pending entry is older than
\* STALE_MS; the entries the sweep removed were older than STALE_MS and were dropped
\* without a delivery; every other entry is still there.
C24_SweepBound ==
    DecodedAccount =>
        /\ \A s \in DOMAIN pendingTrades : now - pendingTrades[s].timestamp <= STALE_MS
        /\ \A s \in SweptSlots : now - lastCall.pre.pendingTrades[s].timestamp > STALE_MS
        /\ \A s \in DOMAIN lastCall.pre.pendingTrades \ (SweptSlots \cup {lastCall.slot}) :
               pendingTrades[s] = lastCall.pre.pendingTrades[s]
        /\ emitted = <<>>
        /\ eventCount = lastCall.pre.eventCount
        /\ \A s \in SweptSlots : trades[lastCall.pre.pendingTrades[s].tid].n = 0

\* a notification swept one entry and kept another that was exactly STALE_MS old
C24_Witness ==
    /\ DecodedAccount
    /\ SweptSlots # {}
    /\ \E s \in DOMAIN pendingTrades : now - pendingTrades[s].timestamp = STALE_MS

\* every listener of the run was called unless the loop itself passed it over, and
\* no exception left the loop
RunComplete(run) ==
    /\ ~run.escaped
    /\ run.reached \cup run.threw \cup run.skipped = run.listeners

\* a listener threw and a listener later in the iteration was still reached
ThrowThenReached(run) == \E a \in run.threw, b \in run.reached : a < b

\* C25: a listener that throws neither stops the delivery of the event to the other
\* listeners nor lets the exception leave the loop, for the callbacks of a subscription
\* and for the server's clients of an entry (clients whose socket is not open are
\* passed over, every open client is sent to).
C25_FailureIsolated ==
    /\ RunComplete(notified)
    /\ notified.skipped = {}
    /\ RunComplete(broadcast)
    /\ \A c \in broadcast.skipped : c \notin broadcast.reached \cup broadcast.threw

\* in both loops an earlier listener threw and a later one got the event
C25_Witness ==
    /\ ThrowThenReached(notified)
    /\ ThrowThenReached(broadcast)

\* C26: a client whose send failed is no longer in the clients of its entry after the
\* broadcast.
C26_FailedClientRemoved ==
    broadcast.entry # NoEntry => broadcast.threw \cap entryClients[broadcast.entry] = {}

\* the last step was an unsubscribe() call on an object already unsubscribed
RepeatedUnsubscribe == lastCall.op = "unsubscribe" /\ lastCall.pre.phase = "closed"

\* C27: after a successful subscribe(), however often unsubscribe() is called, one
\* cancel has been issued for the account handle and one for the logs handle; a
\* repeated call issues none and leaves the object as it was.
C27_CancelOncePerHandle ==
    /\ cancels.account <= 1
    /\ cancels.logs <= 1
    /\ phase = "closed" => cancels = [account |-> 1, logs |-> 1]
    /\ RepeatedUnsubscribe =>
           /\ accountListenerId = Null
           /\ logsListenerId = Null
           /\ ~subscribed
           /\ ~eventParser
           /\ prevReserves = lastCall.pre.prevReserves
           /\ pendingTrades = lastCall.pre.pendingTrades
           /\ timers = lastCall.pre.timers
           /\ eventCount = lastCall.pre.eventCount

\* unsubscribe() was called again with a timer of the closed subscription outstanding
C27_Witness ==
    /\ RepeatedUnsubscribe
    /\ timers # {}
    /\ cancels = [account |-> 1, logs |-> 1]

\* C28: in every state status.subscribed is true exactly when accountListenerId and
\* logsListenerId are both non-null.
C28_SubscribedIffBothHandles ==
    subscribed <=> (accountListenerId # Null /\ logsListenerId # Null)

\* subscribe() was called again after an unsubscribe() and threw at the logs listener:
\* the account handle is held, the logs handle is not, and the flag is false
C28_Witness ==
    /\ lastCall.op = "subscribe"
    /\ cancels.account > 0
    /\ accountListenerId # Null
    /\ logsListenerId = Null
    /\ ~subscribed

\* the last step was handleLogs on a notification that failed: parseLogs threw, or no
\* parsed event is a TradeEvent whose creator converts
FailingLogs ==
    /\ lastCall.op = "logs"
    /\ \/ lastCall.data = None
       \/ \A k \in DOMAIN lastCall.data[1] :
              \/ lastCall.data[1][k].name # "TradeEvent"
              \/ lastCall.data[1][k].creator = Null

\* C29: a log notification that fails parsing or validation delivers no TradeEvent and
\* leaves the pending table, its timers and eventCount as they were.
C29_FailingLogsNoOp ==
    FailingLogs =>
        /\ emitted = <<>>
        /\ pendingTrades = lastCall.pre.pendingTrades
        /\ timers = lastCall.pre.timers
        /\ eventCount = lastCall.pre.eventCount
        /\ Len(trades) = lastCall.pre.ntrades

\* a TradeEvent whose creator does not convert arrived while a provisional trade was
\* pending within the slot window
C29_Witness ==
    /\ FailingLogs
    /\ lastCall.data # None
    /\ lastCall.data[1] # <<>>
    /\ lastCall.data[1][1].name = "TradeEvent"
    /\ MatchSlots(lastCall.pre.pendingTrades, lastCall.slot) # {}

\* the subscribe() of subscription c found no account under the key or an account of
\* another program
NotACurve(sub) == sub.outcome \in {"not_found", "other_owner"}

\* C30: subscribe() on a key that is no account, or an account of another program,
\* fails: subscribed stays false, status.error is set, no listener is opened and the
\* server stores no entry for it; for an account of the pump or pump_amm program the
\* variant is set by subscribe() and does not change while the object is subscribed.
C30_VariantFixedOrRejected ==
    [][/\ \A c \in Clients :
             NotACurve(subs'[c]) =>
                 /\ ~subs'[c].subscribed
                 /\ subs'[c].error
                 /\ ~subs'[c].account
                 /\ ~subs'[c].logs
                 /\ subs'[c].programType = Null
                 /\ registry' # c
                 /\ entryClients'[c] = {}
                 /\ pc'[c] = "rejected"
       /\ \A e \in Clients :
             subs'[e].subscribed =>
                 /\ subs'[e].programType \in {"pump", "pump_amm"}
                 /\ subs[e].subscribed => subs'[e].programType = subs[e].programType]_vars

\* one connection was rejected because the key is an account of another program, and
\* another connection's subscription is a pump_amm one stored under the key
C30_Witness ==
    \E a, b \in Clients :
        /\ subs[a].outcome = "other_owner"
        /\ pc[a] = "rejected"
        /\ subs[b].subscribed
        /\ subs[b].programType = "pump_amm"
        /\ registry = b

\* the last step was the run of a setTimeout closure
TimerRan == lastCall.op = "timer"

\* C32: a timer delivers and removes only the provisional trade it was scheduled for,
\* and only once that trade has been pending for TIMEOUT_MS since its own creation.
C32_TimerOwnTradeOnly ==
    TimerRan =>
        /\ \A k \in DOMAIN emitted :
               /\ emitted[k].tid = lastCall.data[1].tid
               /\ now - trades[emitted[k].tid].at >= TIMEOUT_MS
        /\ \A s \in DOMAIN lastCall.pre.pendingTrades \ DOMAIN pendingTrades :
               lastCall.pre.pendingTrades[s].tid = lastCall.data[1].tid

\* the valid requests that have read the cache
Served == {r \in Requests : req[r].pc # "idle" /\ req[r].answer # "invalid"}

\* the age, when request r read the cache, of the entry it found
SeenAge(r) == req[r].at - req[r].seen[1].timestamp

\* request r called getTopHolders
Fetching(r) == req[r].pc = "fetching" \/ req[r].answer \in {"fetch", "error"}

\* C31: a request that finds an entry of its mint stored at most CACHE_TTL earlier is
\* answered with that entry's data and does not call getTopHolders; a request that
\* finds an older entry removes it and fetches; a request that finds none fetches; the
\* cache only ever holds the data of a fetch that succeeded.
C31_CacheTtl ==
    /\ \A r \in Served :
           /\ (req[r].seen # None /\ SeenAge(r) <= CACHE_TTL) =>
                  /\ req[r].answer = "cache"
                  /\ req[r].data = req[r].seen[1].data
                  /\ ~Fetching(r)
           /\ (req[r].seen # None /\ SeenAge(r) > CACHE_TTL) =>
                  /\ Fetching(r)
                  /\ lastApi = [op |-> "request", r |-> r] =>
                         topHoldersCache[req[r].mint] = None
           /\ req[r].seen = None => Fetching(r)
    /\ \A m \in Mints :
           topHoldersCache[m] # None =>
               LET r == topHoldersCache[m][1].data
               IN  /\ r \in Requests
                   /\ req[r].answer = "fetch"
                   /\ req[r].mint = m

\* a fetch was stored, a request exactly CACHE_TTL later was answered from the cache,
\* and a request after that has just found the entry expired and removed it
C31_Witness ==
    \E a, b, c \in Requests :
        /\ req[a].answer = "fetch"
        /\ req[b].answer = "cache"
        /\ req[b].data = a
        /\ SeenAge(b) = CACHE_TTL
        /\ req[c].seen # None
        /\ req[c].mint = req[a].mint
        /\ SeenAge(c) > CACHE_TTL
        /\ lastApi = [op |-> "request", r |-> c]

\* C33: every step adds to status.eventCount exactly the number of TradeEvents it
\* passed to notifyCallbacks, whatever path delivered them (timeout, merge, standalone
\* log, pump_amm log); unsubscribe() and subscribe() add nothing and reset nothing.
C33_CountsDeliveries ==
    /\ eventCount = lastCall.pre.eventCount + Len(emitted)
    /\ lastCall.op = "new" => eventCount = 0
    /\ lastCall.op \in {"unsubscribe", "subscribe", "subscribe_rejected"} =>
           eventCount = lastCall.pre.eventCount

\* unsubscribe() ran on an object that had passed at least two events to
\* notifyCallbacks, one of them for a provisional trade
C33_Witness ==
    /\ lastCall.op = "unsubscribe"
    /\ eventCount >= 2
    /\ \E tid \in DOMAIN trades : trades[tid].n = 1

\* the last step handled a log notification holding exactly one TradeEvent that converts
OneLogTrade == LogsTrade /\ Len(lastCall.data[1]) = 1

\* C34: when several provisional trades are pending within SLOT_WINDOW slots of a
\* pump TradeEvent log, the one at the smallest slot is merged and removed, and every
\* other entry stays in the pending table as it was.
C34_SmallestSlotMerged ==
    (OneLogTrade /\ Cardinality(InWindow) >= 2) =>
        LET before == lastCall.pre.pendingTrades
        IN  /\ Len(emitted) = 1
            /\ emitted[1].via = "merged"
            /\ emitted[1].tid = before[FirstInWindow].tid
            /\ DOMAIN pendingTrades = DOMAIN before \ {FirstInWindow}
            /\ \A s \in DOMAIN pendingTrades : pendingTrades[s] = before[s]

\* a log arrived while a trade was pending at its own slot and another at a smaller
\* slot inside the window: the one at the smaller slot was merged
C34_Witness ==
    /\ OneLogTrade
    /\ Cardinality(InWindow) >= 2
    /\ lastCall.slot \in InWindow
    /\ FirstInWindow < lastCall.slot
    /\ lastCall.slot \in DOMAIN pendingTrades
    /\ Len(emitted) = 1

\* C35: once the connection handler of a client has completed, a client whose socket
\* is closed is in no entry's client set.
C35_ClosedClientNotLeft ==
    \A c \in Clients :
        (ws[c] = "closed" /\ pc[c] \in {"joined", "rejected"}) =>
            \A e \in Clients : c \notin entryClients[e]

\* C36: whenever a step removes the entry stored under the key, that entry's own client
\* set is empty after the step and the client whose handler ran belonged to it.
C36_OnlyOwnEmptyEntryRemoved ==
    [][(registry # NoEntry /\ registry' = NoEntry) =>
          /\ entryClients'[registry] = {}
          /\ \E c \in Clients : ws'[c] # ws[c] /\ closure[c] = registry]_vars

\* C37: the first message sent to a client's socket is never a TradeEvent: every client
\* a broadcast reaches was sent its 'connected' message before, whether its handler
\* created the entry or joined one.
C37_WelcomeFirst ==
    /\ \A c \in Clients : firstMsg[c] # "trade"
    /\ \A c \in broadcast.reached : firstMsg[c] = "connected"

\* a broadcast reached the client that created the entry and a client that joined it
C37_Witness ==
    \E a, b \in broadcast.reached :
        /\ a # b
        /\ closure[a] = a
        /\ closure[b] = a
        /\ broadcast.entry = a

\* C38: a subscribe() call on a subscribed object (it throws 'Already subscribed')
\* leaves the listener ids, prevReserves, the pending table, its timers, the event
\* parser and every status field as they were.
C38_AlreadySubscribedNoOp ==
    [][lastCall'.op = "subscribe_rejected" =>
          /\ subscribed
          /\ UNCHANGED <<accountListenerId, logsListenerId, prevReserves, pendingTrades,
                         timers, eventParser, subscribed, statusError, programType,
                         eventCount>>]_vars

\* subscribe() was rejected on a subscribed object that holds a snapshot and a pending
\* trade and has no error recorded
C38_Witness ==
    /\ lastCall.op = "subscribe_rejected"
    /\ subscribed
    /\ ~statusError
    /\ prevReserves # None
    /\ pendingTrades # EmptyMap

\* retryWithBackoff has returned or thrown
RetryDone == retry.pc \in {"returned", "thrown"}

\* the fn() calls made so far
RetryCalls == Len(retry.kinds)

\* C39 (safety): fn is invoked at most maxRetries times; every call before the last
\* failed with a rate-limit error and was followed by one wait of
\* initialDelay * 2^attempt; a success is returned at once; another error, or the error
\* of the maxRetries-th call, is rethrown at once with no wait after it.
RetrySafe ==
    /\ RetryCalls <= retry.maxRetries
    /\ \A i \in 1 .. RetryCalls - 1 : retry.kinds[i] = "rate_limit"
    /\ \A i \in DOMAIN retry.waits :
           /\ retry.kinds[i] = "rate_limit"
           /\ retry.waits[i] = retry.initialDelay * 2^(i - 1)
    /\ Len(retry.waits) = IF RetryDone /\ RetryCalls > 0 THEN RetryCalls - 1
                          ELSE RetryCalls
    /\ retry.pc = "returned" => retry.kinds[RetryCalls] = "ok"
    /\ retry.pc = "thrown" =>
           IF RetryCalls = 0 THEN retry.maxRetries = 0
           ELSE /\ retry.error = retry.kinds[RetryCalls]
                /\ \/ retry.error = "other"
                   \/ retry.error = "rate_limit" /\ RetryCalls = retry.maxRetries
    /\ retry.pc = "waiting" => RetryCalls < retry.maxRetries

ParamChecked(c) == ~paramCheck[c].seen /\ paramCheck'[c].seen

\* C40: whenever a connection arrives whose bondingCurve parameter is missing or does
\* not match the address pattern, the handler closes the socket with code 1008 and the
\* step leaves the registry, every client set and every upstream subscription as they
\* were.
C40_InvalidParameterRejected ==
    [][\A c \in Clients :
          (ParamChecked(c) /\ ~paramCheck'[c].matches) =>
              /\ paramCheck'[c].code = INVALID_PARAMETER_CODE
              /\ ws'[c] = "closing"
              /\ UNCHANGED <<registry, entryClients, subs>>]_vars

\* a parameter that does not match the pattern passed the check and its handler went
\* on to construct and subscribe a TransactionSubscription
C40_MismatchAccepted ==
    \E c \in Clients :
        /\ paramCheck[c].seen
        /\ ~paramCheck[c].matches
        /\ paramCheck[c].code = 0
        /\ subs[c].made

====
